---- MODULE Spec2Model ----
(***************************************************************************)
(* Model of alduin's tool-calling orchestration loop                       *)
(* (src/alduin/main.py: main, agent_loop, execute_tool) and of the Model   *)
(* Gateway (src/alduin/llm.py: call).                                      *)
(*                                                                         *)
(* Strings the code builds or tests are sequences: a line read from the    *)
(* terminal is the sequence of its characters' code points; a tool outcome *)
(* is a sequence of string pieces in the order the f-string joins them.    *)
(* A content block is a record [type, id, name, input]; a field a block    *)
(* type does not have holds "" or 0.  A conversation turn is a record      *)
(* [role, text, blocks]: `text` is the content when it is a plain string,  *)
(* `blocks` is the content when it is a list of blocks.                    *)
(***************************************************************************)
EXTENDS Integers, Sequences, FiniteSets, TLC

VARIABLES
    pc,                   \* position of the process
    environ,              \* ANTHROPIC_API_KEY in the environment
    console,              \* calls made to the presentation layer, in order
    conversation_created, \* agent_loop ran `conversation = []`
    conversation,         \* agent_loop's `conversation`
    last_input,           \* outcome of the latest input() call
    user_input,           \* agent_loop's `user_input`
    llm_response,         \* content blocks of the latest `llm_response`
    block_i,              \* position of `for block in llm_response.content`
    tool_results,         \* agent_loop's `tool_results`
    dispatched,           \* execute_tool calls whose result is in tool_results
    gateway_calls,        \* number of llm.call invocations
    turn_calls,           \* llm.call invocations since the latest user text
    turn_start,           \* len(conversation) before the latest user text
    next_id,              \* tool-use identifiers the provider has issued
    fatal,                \* exception that left agent_loop, or "none"
    reg_tools,            \* a list of active tools given to the registry
    reg_lookup,           \* the lookup table built from reg_tools
    reg_name,             \* the name looked up last
    reg_fn                \* what the lookup of reg_name gave

vars == <<pc, environ, console, conversation_created, conversation, last_input,
          user_input, llm_response, block_i, tool_results, dispatched,
          gateway_calls, turn_calls, turn_start, next_id, fatal,
          reg_tools, reg_lookup, reg_name, reg_fn>>

registry == <<reg_tools, reg_lookup, reg_name, reg_fn>>

(***************************************************************************)
(* Bounds of the model.                                                    *)
(***************************************************************************)
MaxCalls == 2
MaxBlocks == 2
MaxToolUses == 2
MaxTools == 3

(***************************************************************************)
(* Inputs: environment, terminal lines, model responses, tool behaviour.   *)
(***************************************************************************)
Environments ==
    { [present |-> FALSE, value |-> ""],
      [present |-> TRUE,  value |-> ""],
      [present |-> TRUE,  value |-> "None"],
      [present |-> TRUE,  value |-> "sk-ant-key"] }

\* the code points str.strip() removes: those for which str.isspace() holds
Whitespace ==
    {9, 10, 11, 12, 13, 28, 29, 30, 31, 32, 133, 160, 5760}
        \cup (8192..8202) \cup {8232, 8233, 8239, 8287, 12288}

\* "", " \t", "\f", U+00A0 U+2003, " hi "
Lines == { <<>>, <<32, 9>>, <<12>>, <<160, 8195>>, <<32, 104, 105, 32>> }

RequestedNames == {"list_files", "delete_everything"}

ToolArgs == "{}"

ToolBehaviours ==
    { [kind |-> "return", value |-> "a.txt\nb.txt"],
      [kind |-> "raise",  value |-> "[Errno 2] No such file or directory"],
      [kind |-> "raise",  value |-> "got an unexpected keyword argument"],
      [kind |-> "interrupt", value |-> "KeyboardInterrupt"] }

None == 0

NoneCall == [kind |-> "raise", value |-> "'NoneType' object is not callable"]

(***************************************************************************)
(* Pure helpers.                                                           *)
(***************************************************************************)
RECURSIVE lstrip(_)
lstrip(s) ==
    IF s # <<>> /\ Head(s) \in Whitespace THEN lstrip(Tail(s)) ELSE s

RECURSIVE rstrip(_)
rstrip(s) ==
    IF s # <<>> /\ s[Len(s)] \in Whitespace
    THEN rstrip(SubSeq(s, 1, Len(s) - 1))
    ELSE s

strip(s) == rstrip(lstrip(s))

Event(fn, name) == [fn |-> fn, name |-> name]

\* what the first n of the calls in `calls` wrote
Cut(calls, n) == SubSeq(calls, 1, n)

active_tools == <<"read_file", "list_files">>

\* {t.__name__: t for t in active_tools}: the entries are stored in list
\* order, storing under a name already present replaces its callable; a
\* callable is named by its position in the list.
RECURSIVE StoreAll_keep_first(_, _, _)
StoreAll_keep_first(table, tools, i) ==
    IF i > Len(tools)
    THEN table
    ELSE StoreAll_keep_first(
            [n \in DOMAIN table \cup {tools[i]} |->
                IF n \in DOMAIN table THEN table[n] ELSE i],
            tools, i + 1)

\* the table built with setdefault: the first tool of a name stays
BuildLookup_first_wins(tools) == StoreAll_keep_first(<<>>, tools, 1)

RECURSIVE StoreAll(_, _, _)
StoreAll(table, tools, i) ==
    IF i > Len(tools)
    THEN table
    ELSE StoreAll(
            [n \in DOMAIN table \cup {tools[i]} |->
                IF n = tools[i] THEN i ELSE table[n]],
            tools, i + 1)

BuildLookup(tools) == StoreAll(<<>>, tools, 1)

tools_lookup == BuildLookup(active_tools)

\* dict.get(name): the callable, or None
Get(table, name) == IF name \in DOMAIN table THEN table[name] ELSE None

\* tool_fn(**args): what the call does, given how the tool behaves
CallTool(tool_fn, behaviour) == IF tool_fn = None THEN NoneCall ELSE behaviour

\* f"Error: Requested tool do not exists {name}"
MissingToolMessage(name) == <<"Error:", " Requested tool do not exists ", name>>

\* f'Error: Calling tool {name}\n{e}'
CallFaultMessage(name, e) == <<"Error:", " Calling tool ", name, "\n", e>>

\* the error messages execute_tool shows before the call
ShownIfMissing(tool_fn, name) ==
    IF tool_fn = None THEN <<MissingToolMessage(name)>> ELSE <<>>

\* what leaves execute_tool when the call is left by a BaseException that is
\* no Exception: the presentation calls made before the call stay made
Propagated(name, tool_fn) ==
    [raised |-> TRUE,
     result |-> <<>>,
     ui |-> (IF tool_fn = None
             THEN <<Event("print_tool_error", name)>>
             ELSE <<>>) \o <<Event("print_tool_request", name)>>,
     errors |-> ShownIfMissing(tool_fn, name)]

\* execute_tool without the try/except around the call
execute_tool_no_catch(name, table, args, behaviour) ==
    LET tool_fn == Get(table, name)
        missing == IF tool_fn = None
                   THEN <<Event("print_tool_error", name)>>
                   ELSE <<>>
        request == <<Event("print_tool_request", name)>>
        out == CallTool(tool_fn, behaviour)
    IN  IF out.kind = "return"
        THEN [raised |-> FALSE,
              result |-> <<out.value>>,
              ui |-> missing \o request \o <<Event("print_tool_result", name)>>,
              errors |-> ShownIfMissing(tool_fn, name)]
        ELSE Propagated(name, tool_fn)

\* execute_tool looking the tool up with tools_lookup_table[name]
execute_tool_key_error(name, table, args, behaviour) ==
    LET out == CallTool(Get(table, name), behaviour)
        request == <<Event("print_tool_request", name)>>
    IN  IF name \notin DOMAIN table
        THEN [raised |-> TRUE, result |-> <<>>, ui |-> <<>>, errors |-> <<>>]
        ELSE IF out.kind = "return"
        THEN [raised |-> FALSE,
              result |-> <<out.value>>,
              ui |-> request \o <<Event("print_tool_result", name)>>,
              errors |-> <<>>]
        ELSE IF out.kind = "raise"
        THEN [raised |-> FALSE,
              result |-> CallFaultMessage(name, out.value),
              ui |-> request \o <<Event("print_tool_error", name)>>,
              errors |-> <<CallFaultMessage(name, out.value)>>]
        ELSE Propagated(name, Get(table, name))

\* execute_tool returning the not-found message as soon as the lookup fails
execute_tool_short_circuit(name, table, args, behaviour) ==
    LET tool_fn == Get(table, name)
        request == <<Event("print_tool_request", name)>>
        out == CallTool(tool_fn, behaviour)
    IN  IF tool_fn = None
        THEN [raised |-> FALSE,
              result |-> MissingToolMessage(name),
              ui |-> <<Event("print_tool_error", name)>>,
              errors |-> <<MissingToolMessage(name)>>]
        ELSE IF out.kind = "return"
        THEN [raised |-> FALSE,
              result |-> <<out.value>>,
              ui |-> request \o <<Event("print_tool_result", name)>>,
              errors |-> <<>>]
        ELSE IF out.kind = "raise"
        THEN [raised |-> FALSE,
              result |-> CallFaultMessage(name, out.value),
              ui |-> request \o <<Event("print_tool_error", name)>>,
              errors |-> <<CallFaultMessage(name, out.value)>>]
        ELSE Propagated(name, tool_fn)

\* raised: an exception left execute_tool; result: the value returned;
\* ui: the presentation calls made, in order; errors: the messages given to
\* print_tool_error, in order.  `except Exception` catches what the tool
\* raises (behaviour "raise") and not a KeyboardInterrupt delivered while the
\* tool runs (behaviour "interrupt").
execute_tool(name, table, args, behaviour) ==
    LET tool_fn == Get(table, name)
        missing == IF tool_fn = None
                   THEN <<Event("print_tool_error", name)>>
                   ELSE <<>>
        request == <<Event("print_tool_request", name)>>
        out == CallTool(tool_fn, behaviour)
    IN  IF out.kind = "return"
        THEN [raised |-> FALSE,
              result |-> <<out.value>>,
              ui |-> missing \o request \o <<Event("print_tool_result", name)>>,
              errors |-> ShownIfMissing(tool_fn, name)]
        ELSE IF out.kind = "raise"
        THEN [raised |-> FALSE,
              result |-> CallFaultMessage(name, out.value),
              ui |-> missing \o request \o <<Event("print_tool_error", name)>>,
              errors |-> ShownIfMissing(tool_fn, name)
                            \o <<CallFaultMessage(name, out.value)>>]
        ELSE Propagated(name, tool_fn)

TextBlock == [type |-> "text", id |-> 0, name |-> "", input |-> ""]

ToolUseBlock(id, name) ==
    [type |-> "tool_use", id |-> id, name |-> name, input |-> ToolArgs]

ToolUses(content) ==
    SelectSeq(content, LAMBDA b : b.type = "tool_use")

\* The shapes of a response: each block is text or asks for a named tool.
BlockShapes == {"text"} \cup RequestedNames

ResponseShapes ==
    UNION { [1..n -> BlockShapes] : n \in 0..MaxBlocks }

NumToolUses(shape) == Cardinality({i \in DOMAIN shape : shape[i] # "text"})

\* The provider gives every tool-use block a fresh identifier.
Response(shape, first_id) ==
    [i \in DOMAIN shape |->
        IF shape[i] = "text"
        THEN TextBlock
        ELSE ToolUseBlock(
                first_id + Cardinality({j \in 1..i : shape[j] # "text"}),
                shape[i])]

\* tool_results.insert(0, ...) in place of append
AppendResult_prepend(results, item) == <<item>> \o results

\* tool_results rebuilt for every block
AppendResult_only_latest(results, item) == <<item>>

\* tool_results.append(item)
AppendResult(results, item) == Append(results, item)

\* `if tool_results: break`
NoToolResults_inverted(results) == results # <<>>

\* `not tool_results`
NoToolResults(results) == results = <<>>

Turn(role, text, blocks) == [role |-> role, text |-> text, blocks |-> blocks]

NoInput == [kind |-> "none", text |-> <<>>]

(***************************************************************************)
(* Initial state: the process has started, main() has not run yet.         *)
(***************************************************************************)
Init ==
    /\ pc = "main"
    /\ environ \in Environments
    /\ console = <<>>
    /\ conversation_created = FALSE
    /\ conversation = <<>>
    /\ last_input = NoInput
    /\ user_input = <<>>
    /\ llm_response = <<>>
    /\ block_i = 1
    /\ tool_results = <<>>
    /\ dispatched = <<>>
    /\ gateway_calls = 0
    /\ turn_calls = 0
    /\ turn_start = 0
    /\ next_id = 0
    /\ fatal = "none"
    /\ reg_tools = <<>>
    /\ reg_lookup = <<>>
    /\ reg_name = ""
    /\ reg_fn = None

loop_state == <<conversation, last_input, user_input, llm_response, block_i,
                tool_results, dispatched, gateway_calls, turn_calls,
                turn_start, next_id, fatal>>

\* os.getenv("ANTHROPIC_API_KEY")
\* the value is the record [none, str]: Python's None, or the string
getenv(env) ==
    IF env.present
    THEN [none |-> FALSE, str |-> env.value]
    ELSE [none |-> TRUE, str |-> ""]

\* `not api_key`
MissingKey(api_key) == api_key.none \/ api_key.str = ""

\* main() without the `return` after the error report
MainNoKey_no_return ==
    /\ pc = "main"
    /\ MissingKey(getenv(environ))
    /\ console' = console \o <<Event("print_banner", ""), Event("print_error", "")>>
    /\ conversation_created' = TRUE
    /\ conversation' = <<>>
    /\ pc' = "awaiting"
    /\ UNCHANGED <<environ, last_input, user_input, llm_response, block_i,
                   tool_results, dispatched, gateway_calls, turn_calls,
                   turn_start, next_id, fatal>>
    /\ UNCHANGED registry

\* main(), credential missing: report and return
MainNoKey ==
    /\ pc = "main"
    /\ MissingKey(getenv(environ))
    /\ console' = console \o <<Event("print_banner", ""), Event("print_error", "")>>
    /\ pc' = "exited"
    /\ UNCHANGED <<environ, conversation_created, loop_state>>
    /\ UNCHANGED registry

\* main(), credential present: build the client and enter agent_loop
MainStartsLoop ==
    /\ pc = "main"
    /\ ~MissingKey(getenv(environ))
    /\ console' = Append(console, Event("print_banner", ""))
    /\ conversation_created' = TRUE
    /\ conversation' = <<>>
    /\ pc' = "awaiting"
    /\ UNCHANGED <<environ, last_input, user_input, llm_response, block_i,
                   tool_results, dispatched, gateway_calls, turn_calls,
                   turn_start, next_id, fatal>>
    /\ UNCHANGED registry

\* the farewell printed without the `return`
ReadInterrupted_no_return ==
    /\ pc = "awaiting"
    /\ \E k \in {"KeyboardInterrupt", "EOFError"} :
          last_input' = [kind |-> k, text |-> <<>>]
    /\ console' = console \o
          <<Event("clear_previous_line", ""), Event("print_goodbye", "")>>
    /\ pc' = "awaiting"
    /\ UNCHANGED <<environ, conversation_created, conversation, user_input,
                   llm_response, block_i, tool_results, dispatched,
                   gateway_calls, turn_calls, turn_start, next_id, fatal>>
    /\ UNCHANGED registry

\* input() raises KeyboardInterrupt or EOFError: farewell and return
ReadInterrupted ==
    /\ pc = "awaiting"
    /\ \E k \in {"KeyboardInterrupt", "EOFError"} :
          last_input' = [kind |-> k, text |-> <<>>]
    /\ console' = console \o
          <<Event("clear_previous_line", ""), Event("print_goodbye", "")>>
    /\ pc' = "shutdown"
    /\ UNCHANGED <<environ, conversation_created, conversation, user_input,
                   llm_response, block_i, tool_results, dispatched,
                   gateway_calls, turn_calls, turn_start, next_id, fatal>>
    /\ UNCHANGED registry

\* the empty line handled without the `continue`
ReadEmptyLine_no_continue ==
    /\ pc = "awaiting"
    /\ \E line \in Lines :
          /\ strip(line) = <<>>
          /\ last_input' = [kind |-> "line", text |-> line]
          /\ user_input' = strip(line)
          /\ conversation' = Append(conversation, Turn("user", strip(line), <<>>))
    /\ console' = console \o
          <<Event("clear_previous_line", ""), Event("print_user_message", "")>>
    /\ turn_start' = Len(conversation)
    /\ turn_calls' = 0
    /\ pc' = "calling"
    /\ UNCHANGED <<environ, conversation_created, llm_response, block_i,
                   tool_results, dispatched, gateway_calls, next_id, fatal>>
    /\ UNCHANGED registry

\* input() returns a line that is empty once stripped: continue
ReadEmptyLine ==
    /\ pc = "awaiting"
    /\ \E line \in Lines :
          /\ strip(line) = <<>>
          /\ last_input' = [kind |-> "line", text |-> line]
          /\ user_input' = strip(line)
    /\ pc' = "awaiting"
    /\ UNCHANGED <<environ, console, conversation_created, conversation,
                   llm_response, block_i, tool_results, dispatched,
                   gateway_calls, turn_calls, turn_start, next_id, fatal>>
    /\ UNCHANGED registry

\* `conversation = [...]` for every user line, in place of append
ReadUserLine_reset ==
    /\ pc = "awaiting"
    /\ \E line \in Lines :
          /\ strip(line) # <<>>
          /\ last_input' = [kind |-> "line", text |-> line]
          /\ user_input' = strip(line)
          /\ conversation' = <<Turn("user", strip(line), <<>>)>>
    /\ console' = console \o
          <<Event("clear_previous_line", ""), Event("print_user_message", "")>>
    /\ turn_start' = 0
    /\ turn_calls' = 0
    /\ pc' = "calling"
    /\ UNCHANGED <<environ, conversation_created, llm_response, block_i,
                   tool_results, dispatched, gateway_calls, next_id, fatal>>
    /\ UNCHANGED registry

\* input() returns a non-empty line: append the user turn, start the inner loop
ReadUserLine ==
    /\ pc = "awaiting"
    /\ \E line \in Lines :
          /\ strip(line) # <<>>
          /\ last_input' = [kind |-> "line", text |-> line]
          /\ user_input' = strip(line)
          /\ conversation' = Append(conversation, Turn("user", strip(line), <<>>))
    /\ console' = console \o
          <<Event("clear_previous_line", ""), Event("print_user_message", "")>>
    /\ turn_start' = Len(conversation)
    /\ turn_calls' = 0
    /\ pc' = "calling"
    /\ UNCHANGED <<environ, conversation_created, llm_response, block_i,
                   tool_results, dispatched, gateway_calls, next_id, fatal>>
    /\ UNCHANGED registry

\* the response used without `conversation.append` of the assistant turn
CallModel_no_append ==
    /\ pc = "calling"
    /\ gateway_calls < MaxCalls
    /\ \E shape \in ResponseShapes :
          /\ next_id + NumToolUses(shape) <= MaxToolUses
          /\ llm_response' = Response(shape, next_id)
          /\ next_id' = next_id + NumToolUses(shape)
    /\ gateway_calls' = gateway_calls + 1
    /\ turn_calls' = turn_calls + 1
    /\ tool_results' = <<>>
    /\ dispatched' = <<>>
    /\ block_i' = 1
    /\ console' = console \o <<Event("print_debug", ""), Event("pprint", "")>>
    /\ pc' = "blocks"
    /\ UNCHANGED <<environ, conversation_created, conversation, last_input,
                   user_input, turn_start, fatal>>
    /\ UNCHANGED registry

\* llm.call returns a response: append the assistant turn, start on its blocks
CallModel ==
    /\ pc = "calling"
    /\ gateway_calls < MaxCalls
    /\ \E shape \in ResponseShapes :
          /\ next_id + NumToolUses(shape) <= MaxToolUses
          /\ llm_response' = Response(shape, next_id)
          /\ next_id' = next_id + NumToolUses(shape)
    /\ gateway_calls' = gateway_calls + 1
    /\ turn_calls' = turn_calls + 1
    /\ conversation' = Append(conversation, Turn("assistant", <<>>, llm_response'))
    /\ tool_results' = <<>>
    /\ dispatched' = <<>>
    /\ block_i' = 1
    /\ console' = console \o <<Event("print_debug", ""), Event("pprint", "")>>
    /\ pc' = "blocks"
    /\ UNCHANGED <<environ, conversation_created, last_input, user_input,
                   turn_start, fatal>>
    /\ UNCHANGED registry

\* the failure caught around llm.call and the call tried again
CallModelFails_retry ==
    /\ pc = "calling"
    /\ gateway_calls < MaxCalls
    /\ gateway_calls' = gateway_calls + 1
    /\ turn_calls' = turn_calls + 1
    /\ console' = Append(console, Event("print_debug", ""))
    /\ fatal' = "gateway"
    /\ pc' = "calling"
    /\ UNCHANGED <<environ, conversation_created, conversation, last_input,
                   user_input, llm_response, block_i, tool_results, dispatched,
                   turn_start, next_id>>
    /\ UNCHANGED registry

\* client.messages.create raises: nothing in agent_loop or main catches it
CallModelFails ==
    /\ pc = "calling"
    /\ gateway_calls < MaxCalls
    /\ gateway_calls' = gateway_calls + 1
    /\ turn_calls' = turn_calls + 1
    /\ console' = Append(console, Event("print_debug", ""))
    /\ fatal' = "gateway"
    /\ pc' = "crashed"
    /\ UNCHANGED <<environ, conversation_created, conversation, last_input,
                   user_input, llm_response, block_i, tool_results, dispatched,
                   turn_start, next_id>>
    /\ UNCHANGED registry

\* text rendered only while no tool of the response has run
RenderTextBlock_before_tools_only ==
    /\ pc = "blocks"
    /\ block_i <= Len(llm_response)
    /\ llm_response[block_i].type = "text"
    /\ console' = IF tool_results = <<>>
                  THEN Append(console, Event("print_assistant_reply", ""))
                  ELSE console
    /\ block_i' = block_i + 1
    /\ UNCHANGED <<pc, environ, conversation_created, conversation, last_input,
                   user_input, llm_response, tool_results, dispatched,
                   gateway_calls, turn_calls, turn_start, next_id, fatal>>
    /\ UNCHANGED registry

\* SIGINT inside llm.call: on entry, before print_debug (cut 0), or after it,
\* while client.messages.create waits or returns (cut 1); the call is
\* started, KeyboardInterrupt leaves llm.call and no response is assigned
CallModelInterrupted ==
    /\ pc = "calling"
    /\ gateway_calls < MaxCalls
    /\ gateway_calls' = gateway_calls + 1
    /\ turn_calls' = turn_calls + 1
    /\ \E cut \in 0..1 :
          console' = console \o Cut(<<Event("print_debug", "")>>, cut)
    /\ fatal' = "KeyboardInterrupt"
    /\ pc' = "crashed"
    /\ UNCHANGED <<environ, conversation_created, conversation, last_input,
                   user_input, llm_response, block_i, tool_results, dispatched,
                   turn_start, next_id>>
    /\ UNCHANGED registry

\* loop body, block.type == 'text'
RenderTextBlock ==
    /\ pc = "blocks"
    /\ block_i <= Len(llm_response)
    /\ llm_response[block_i].type = "text"
    /\ console' = Append(console, Event("print_assistant_reply", ""))
    /\ block_i' = block_i + 1
    /\ UNCHANGED <<pc, environ, conversation_created, conversation, last_input,
                   user_input, llm_response, tool_results, dispatched,
                   gateway_calls, turn_calls, turn_start, next_id, fatal>>
    /\ UNCHANGED registry

\* loop body, block.type == 'tool_use'
DispatchToolUse ==
    /\ pc = "blocks"
    /\ block_i <= Len(llm_response)
    /\ llm_response[block_i].type = "tool_use"
    /\ \E behaviour \in ToolBehaviours :
          LET block == llm_response[block_i]
              out == execute_tool(block.name, tools_lookup, block.input, behaviour)
          IN  IF out.raised
              THEN /\ fatal' = IF behaviour.kind = "interrupt"
                               THEN "KeyboardInterrupt"
                               ELSE "tool"
                   /\ pc' = "crashed"
                   /\ console' = console \o out.ui
                   /\ UNCHANGED <<tool_results, dispatched, block_i>>
              ELSE /\ tool_results' = AppendResult(tool_results,
                          [type |-> "tool_result",
                           tool_use_id |-> block.id,
                           content |-> out.result])
                   /\ dispatched' = Append(dispatched,
                          [id |-> block.id, name |-> block.name,
                           known |-> block.name \in DOMAIN tools_lookup,
                           behaviour |-> behaviour,
                           result |-> out.result, ui |-> out.ui,
                           errors |-> out.errors])
                   /\ console' = console \o out.ui
                   /\ block_i' = block_i + 1
                   /\ UNCHANGED <<pc, fatal>>
    /\ UNCHANGED <<environ, conversation_created, conversation, last_input,
                   user_input, llm_response, gateway_calls, turn_calls,
                   turn_start, next_id>>
    /\ UNCHANGED registry

\* the tool results appended and the inner loop left all the same
EndOfBlocks_append_then_break ==
    /\ pc = "blocks"
    /\ block_i > Len(llm_response)
    /\ IF NoToolResults(tool_results)
       THEN UNCHANGED conversation
       ELSE conversation' = Append(conversation, Turn("user", <<>>, tool_results))
    /\ pc' = "awaiting"
    /\ UNCHANGED <<environ, console, conversation_created, last_input,
                   user_input, llm_response, block_i, tool_results, dispatched,
                   gateway_calls, turn_calls, turn_start, next_id, fatal>>
    /\ UNCHANGED registry

\* end of the for loop: break, or append the tool results and call again
EndOfBlocks ==
    /\ pc = "blocks"
    /\ block_i > Len(llm_response)
    /\ IF NoToolResults(tool_results)
       THEN /\ pc' = "awaiting"
            /\ UNCHANGED conversation
       ELSE /\ conversation' = Append(conversation, Turn("user", <<>>, tool_results))
            /\ pc' = "calling"
    /\ UNCHANGED <<environ, console, conversation_created, last_input,
                   user_input, llm_response, block_i, tool_results, dispatched,
                   gateway_calls, turn_calls, turn_start, next_id, fatal>>
    /\ UNCHANGED registry

\* the interrupt swallowed by a handler (`except BaseException`), the loop goes on
InterruptOutsideInput_swallowed ==
    /\ pc \in {"main", "awaiting", "calling", "blocks"}
    /\ fatal' = "KeyboardInterrupt"
    /\ pc' = pc
    /\ UNCHANGED <<environ, console, conversation_created, conversation,
                   last_input, user_input, llm_response, block_i, tool_results,
                   dispatched, gateway_calls, turn_calls, turn_start, next_id>>
    /\ UNCHANGED registry

\* SIGINT before the first statement of a handler, outside the try around
\* input(): on entry of main(), at the jump back to `while True` after
\* `continue` or `break`, before llm.call, before a block is looked at.
\* KeyboardInterrupt is no Exception, nothing catches it
InterruptOutsideInput ==
    /\ pc \in {"main", "awaiting", "calling", "blocks"}
    /\ fatal' = "KeyboardInterrupt"
    /\ pc' = "crashed"
    /\ UNCHANGED <<environ, console, conversation_created, conversation,
                   last_input, user_input, llm_response, block_i, tool_results,
                   dispatched, gateway_calls, turn_calls, turn_start, next_id>>
    /\ UNCHANGED registry

(***************************************************************************)
(* SIGINT inside a handler.  Python raises KeyboardInterrupt in the main   *)
(* thread between two bytecodes, wherever the signal arrives.  Inside the  *)
(* try of main.py:57-58 that is ReadInterrupted; anywhere else nothing     *)
(* catches it, and the process ends with what the statements before the    *)
(* interrupt have done.  `cut` is the number of effects of the handler     *)
(* that happened before the interrupt.                                     *)
(***************************************************************************)
\* main() interrupted after print_banner (cut 1), or after the next effect
\* (cut 2): print_error before the `return`, `conversation = []` of agent_loop
MainInterrupted ==
    /\ pc = "main"
    /\ \E cut \in 1..2 :
          /\ console' = console \o
                (IF cut = 2 /\ MissingKey(getenv(environ))
                 THEN <<Event("print_banner", ""), Event("print_error", "")>>
                 ELSE <<Event("print_banner", "")>>)
          /\ conversation_created' = (cut = 2 /\ ~MissingKey(getenv(environ)))
    /\ fatal' = "KeyboardInterrupt"
    /\ pc' = "crashed"
    /\ UNCHANGED <<environ, conversation, last_input, user_input, llm_response,
                   block_i, tool_results, dispatched, gateway_calls, turn_calls,
                   turn_start, next_id>>
    /\ UNCHANGED registry

\* input() raised KeyboardInterrupt or EOFError and SIGINT arrives inside the
\* handler of main.py:59-62: before clear_previous_line (cut 0), before
\* print_goodbye (cut 1), before the `return` (cut 2)
FarewellInterrupted ==
    /\ pc = "awaiting"
    /\ \E k \in {"KeyboardInterrupt", "EOFError"} :
          last_input' = [kind |-> k, text |-> <<>>]
    /\ \E cut \in 0..2 :
          console' = console \o
              Cut(<<Event("clear_previous_line", ""), Event("print_goodbye", "")>>, cut)
    /\ fatal' = "KeyboardInterrupt"
    /\ pc' = "crashed"
    /\ UNCHANGED <<environ, conversation_created, conversation, user_input,
                   llm_response, block_i, tool_results, dispatched,
                   gateway_calls, turn_calls, turn_start, next_id>>
    /\ UNCHANGED registry

\* a line was read and the try is left; SIGINT at `if not user_input` or
\* `continue` (cut 0), after conversation.append (cut 1), after
\* clear_previous_line (cut 2), after print_user_message (cut 3)
ReadLineInterrupted ==
    /\ pc = "awaiting"
    /\ \E line \in Lines :
          \E cut \in 0..(IF strip(line) = <<>> THEN 0 ELSE 3) :
              /\ last_input' = [kind |-> "line", text |-> line]
              /\ user_input' = strip(line)
              /\ conversation' =
                    IF cut >= 1
                    THEN Append(conversation, Turn("user", strip(line), <<>>))
                    ELSE conversation
              /\ turn_start' = IF cut >= 1 THEN Len(conversation) ELSE turn_start
              /\ turn_calls' = IF cut >= 1 THEN 0 ELSE turn_calls
              /\ console' = console \o
                    (IF cut >= 2
                     THEN Cut(<<Event("clear_previous_line", ""),
                                Event("print_user_message", "")>>, cut - 1)
                     ELSE <<>>)
    /\ fatal' = "KeyboardInterrupt"
    /\ pc' = "crashed"
    /\ UNCHANGED <<environ, conversation_created, llm_response, block_i,
                   tool_results, dispatched, gateway_calls, next_id>>
    /\ UNCHANGED registry

\* llm.call returned a response and SIGINT arrives before the blocks are
\* looked at: before conversation.append (cut 0), after it (cut 1), after
\* `tool_results = []` (cut 2), after pprint (cut 3)
ResponseInterrupted ==
    /\ pc = "calling"
    /\ gateway_calls < MaxCalls
    /\ \E shape \in ResponseShapes :
          /\ next_id + NumToolUses(shape) <= MaxToolUses
          /\ llm_response' = Response(shape, next_id)
          /\ next_id' = next_id + NumToolUses(shape)
    /\ gateway_calls' = gateway_calls + 1
    /\ turn_calls' = turn_calls + 1
    /\ \E cut \in 0..3 :
          /\ conversation' =
                IF cut >= 1
                THEN Append(conversation, Turn("assistant", <<>>, llm_response'))
                ELSE conversation
          /\ tool_results' = IF cut >= 2 THEN <<>> ELSE tool_results
          /\ dispatched' = IF cut >= 2 THEN <<>> ELSE dispatched
          /\ block_i' = IF cut >= 3 THEN 1 ELSE block_i
          /\ console' = console \o
                (IF cut >= 3
                 THEN <<Event("print_debug", ""), Event("pprint", "")>>
                 ELSE <<Event("print_debug", "")>>)
    /\ fatal' = "KeyboardInterrupt"
    /\ pc' = "crashed"
    /\ UNCHANGED <<environ, conversation_created, last_input, user_input,
                   turn_start>>
    /\ UNCHANGED registry

\* a text block: SIGINT after print_assistant_reply (cut 1), or when the for
\* loop has moved on (cut 2)
RenderTextBlockInterrupted ==
    /\ pc = "blocks"
    /\ block_i <= Len(llm_response)
    /\ llm_response[block_i].type = "text"
    /\ console' = Append(console, Event("print_assistant_reply", ""))
    /\ \E cut \in 1..2 :
          block_i' = IF cut = 2 THEN block_i + 1 ELSE block_i
    /\ fatal' = "KeyboardInterrupt"
    /\ pc' = "crashed"
    /\ UNCHANGED <<environ, conversation_created, conversation, last_input,
                   user_input, llm_response, tool_results, dispatched,
                   gateway_calls, turn_calls, turn_start, next_id>>
    /\ UNCHANGED registry

\* a tool-use block: SIGINT inside execute_tool after cut of its presentation
\* calls (nothing is appended, cut = all of them: before tool_results.append),
\* after the append (all + 1), or when the for loop has moved on (all + 2)
DispatchToolUseInterrupted ==
    /\ pc = "blocks"
    /\ block_i <= Len(llm_response)
    /\ llm_response[block_i].type = "tool_use"
    /\ \E behaviour \in ToolBehaviours :
          LET block == llm_response[block_i]
              out == execute_tool(block.name, tools_lookup, block.input, behaviour)
              all == Len(out.ui)
          IN  /\ ~out.raised
              /\ \E cut \in 1..(all + 2) :
                    /\ console' = console \o
                          Cut(out.ui, IF cut <= all THEN cut ELSE all)
                    /\ tool_results' =
                          IF cut > all
                          THEN AppendResult(tool_results,
                                  [type |-> "tool_result",
                                   tool_use_id |-> block.id,
                                   content |-> out.result])
                          ELSE tool_results
                    /\ dispatched' =
                          IF cut > all
                          THEN Append(dispatched,
                                  [id |-> block.id, name |-> block.name,
                                   known |-> block.name \in DOMAIN tools_lookup,
                                   behaviour |-> behaviour,
                                   result |-> out.result, ui |-> out.ui,
                                   errors |-> out.errors])
                          ELSE dispatched
                    /\ block_i' = IF cut = all + 2 THEN block_i + 1 ELSE block_i
    /\ fatal' = "KeyboardInterrupt"
    /\ pc' = "crashed"
    /\ UNCHANGED <<environ, conversation_created, conversation, last_input,
                   user_input, llm_response, gateway_calls, turn_calls,
                   turn_start, next_id>>
    /\ UNCHANGED registry

\* end of the for loop with tool results: SIGINT after conversation.append,
\* at the jump back to the inner `while True`
EndOfBlocksInterrupted ==
    /\ pc = "blocks"
    /\ block_i > Len(llm_response)
    /\ ~NoToolResults(tool_results)
    /\ conversation' = Append(conversation, Turn("user", <<>>, tool_results))
    /\ fatal' = "KeyboardInterrupt"
    /\ pc' = "crashed"
    /\ UNCHANGED <<environ, console, conversation_created, last_input,
                   user_input, llm_response, block_i, tool_results, dispatched,
                   gateway_calls, turn_calls, turn_start, next_id>>
    /\ UNCHANGED registry

Next ==
    \/ MainNoKey
    \/ MainStartsLoop
    \/ ReadInterrupted
    \/ ReadEmptyLine
    \/ ReadUserLine
    \/ CallModel
    \/ CallModelFails
    \/ CallModelInterrupted
    \/ RenderTextBlock
    \/ DispatchToolUse
    \/ EndOfBlocks
    \/ InterruptOutsideInput
    \/ MainInterrupted
    \/ FarewellInterrupted
    \/ ReadLineInterrupted
    \/ ResponseInterrupted
    \/ RenderTextBlockInterrupted
    \/ DispatchToolUseInterrupted
    \/ EndOfBlocksInterrupted

Spec == Init /\ [][Next]_vars

(***************************************************************************)
(* The registry on its own: a list of tools, possibly with a name more     *)
(* than once, is turned into the lookup table, and names are looked up.    *)
(***************************************************************************)
RegistryNames == {"read_file", "list_files", "write_file"}

ToolLists == UNION { [1..n -> RegistryNames] : n \in 0..MaxTools }

RegInit ==
    /\ pc = "registry"
    /\ reg_tools \in ToolLists
    /\ reg_lookup = <<>>
    /\ reg_name = ""
    /\ reg_fn = None
    /\ environ = [present |-> TRUE, value |-> "sk-ant-key"]
    /\ console = <<>>
    /\ conversation_created = FALSE
    /\ conversation = <<>>
    /\ last_input = NoInput
    /\ user_input = <<>>
    /\ llm_response = <<>>
    /\ block_i = 1
    /\ tool_results = <<>>
    /\ dispatched = <<>>
    /\ gateway_calls = 0
    /\ turn_calls = 0
    /\ turn_start = 0
    /\ next_id = 0
    /\ fatal = "none"

\* tools_lookup = {t.__name__: t for t in active_tools}
RegBuild ==
    /\ pc = "registry"
    /\ reg_lookup' = BuildLookup(reg_tools)
    /\ pc' = "registry_built"
    /\ UNCHANGED <<reg_tools, reg_name, reg_fn, environ, console,
                   conversation_created, loop_state>>

\* tools_lookup_table.get(name)
RegResolve ==
    /\ pc = "registry_built"
    /\ \E name \in RegistryNames :
          /\ reg_name' = name
          /\ reg_fn' = Get(reg_lookup, name)
    /\ UNCHANGED <<pc, reg_tools, reg_lookup, environ, console,
                   conversation_created, loop_state>>

RegNext == RegBuild \/ RegResolve

RegistrySpec == RegInit /\ [][RegNext]_vars

TypeOK ==
    /\ pc \in {"main", "exited", "awaiting", "calling", "blocks", "shutdown", "crashed"}
    /\ gateway_calls \in 0..MaxCalls
    /\ next_id \in 0..MaxToolUses
    /\ Len(llm_response) <= MaxBlocks

(***************************************************************************)
(* Vocabulary of the properties.                                           *)
(***************************************************************************)
LastTurn(conv) == conv[Len(conv)]

IsPrefix(s, t) == Len(s) <= Len(t) /\ SubSeq(t, 1, Len(s)) = s

Contains(s, piece) == \E i \in DOMAIN s : s[i] = piece

CountCalls(ui, fns) == Cardinality({i \in DOMAIN ui : ui[i].fn \in fns})

\* blocks is the list of tool results answering, in order, the tool uses of content
Answers(blocks, content) ==
    LET uses == ToolUses(content)
    IN  /\ Len(blocks) = Len(uses)
        /\ \A i \in DOMAIN blocks :
              /\ blocks[i].type = "tool_result"
              /\ blocks[i].tool_use_id = uses[i].id

\* The for loop over the latest response has run to its end.
BlocksDone == pc = "blocks" /\ block_i > Len(llm_response)

(***************************************************************************)
(* C1: a response with N >= 1 tool-use blocks is answered by exactly one   *)
(* new user turn of exactly N tool-result blocks; the i-th references the  *)
(* i-th tool-use identifier and carries what execute_tool returned for it; *)
(* the turn is appended once all N dispatches are done, and it is the last *)
(* turn when the gateway is called next.                                   *)
(***************************************************************************)
C1_ResultTurnStep ==
    LET uses == ToolUses(llm_response)
        N == Len(uses)
    IN  /\ (pc = "blocks" /\ pc' \in {"calling", "awaiting"} /\ N >= 1) =>
              /\ pc' = "calling"
              /\ Len(dispatched) = N
              /\ Len(conversation') = Len(conversation) + 1
              /\ SubSeq(conversation', 1, Len(conversation)) = conversation
              /\ LastTurn(conversation).role = "assistant"
              /\ LastTurn(conversation).blocks = llm_response
              /\ LastTurn(conversation').role = "user"
              /\ Answers(LastTurn(conversation').blocks, llm_response)
              /\ \A i \in 1..N :
                    /\ dispatched[i].id = uses[i].id
                    /\ dispatched[i].name = uses[i].name
                    /\ LastTurn(conversation').blocks[i].content =
                          execute_tool(uses[i].name, tools_lookup, uses[i].input,
                                       dispatched[i].behaviour).result
        /\ (pc = "blocks" /\ pc' = "blocks") => conversation' = conversation
        /\ (gateway_calls' # gateway_calls) =>
              /\ conversation # <<>>
              /\ LastTurn(conversation).role = "user"
              /\ (LastTurn(conversation).blocks # <<>>) =>
                    /\ Len(conversation) >= 2
                    /\ conversation[Len(conversation) - 1].role = "assistant"
                    /\ Answers(LastTurn(conversation).blocks,
                               conversation[Len(conversation) - 1].blocks)

C1_OneResultTurnPerResponse == [][C1_ResultTurnStep]_vars

\* two tool uses, a registered tool that faulted and an unregistered one,
\* answered in one turn
C1_Witness ==
    /\ pc = "calling"
    /\ Len(dispatched) = 2
    /\ dispatched[1].known /\ dispatched[1].behaviour.kind = "raise"
    /\ ~dispatched[2].known
    /\ Len(LastTurn(conversation).blocks) = 2
    /\ LastTurn(conversation).blocks[2].tool_use_id = dispatched[2].id

(***************************************************************************)
(* C2: a fault raised by a registered tool (binding of the arguments       *)
(* included) does not leave execute_tool: the outcome is a string holding  *)
(* the tool's name and the fault's message, the loop goes on, the string   *)
(* is the tool result of that block and the gateway is called again.       *)
(***************************************************************************)
Faulted(d) == d.known /\ d.behaviour.kind = "raise"

C2_FaultState ==
    /\ fatal # "tool"
    /\ \A i \in DOMAIN dispatched :
          Faulted(dispatched[i]) =>
              /\ Contains(dispatched[i].result, dispatched[i].name)
              /\ Contains(dispatched[i].result, dispatched[i].behaviour.value)
              /\ i \in DOMAIN tool_results
              /\ tool_results[i].tool_use_id = dispatched[i].id
              /\ tool_results[i].content = dispatched[i].result
              /\ (pc = "calling") =>
                    /\ LastTurn(conversation).role = "user"
                    /\ LastTurn(conversation).blocks[i].tool_use_id = dispatched[i].id
                    /\ LastTurn(conversation).blocks[i].content = dispatched[i].result

C2_FaultStep ==
    /\ (pc = "blocks" /\ block_i <= Len(llm_response)
          /\ llm_response[block_i].type = "tool_use"
          /\ llm_response[block_i].name \in DOMAIN tools_lookup
          /\ fatal' # "KeyboardInterrupt") => pc' = "blocks"
    /\ (BlocksDone /\ pc' # "crashed"
          /\ \E i \in DOMAIN dispatched : Faulted(dispatched[i])) => pc' = "calling"

C2_ToolFaultContained == []C2_FaultState /\ [][C2_FaultStep]_vars

\* a binding fault of list_files has become the tool result sent to the model
C2_Witness ==
    /\ pc = "calling"
    /\ \E i \in DOMAIN dispatched :
          /\ Faulted(dispatched[i])
          /\ dispatched[i].behaviour.value = "got an unexpected keyword argument"
          /\ LastTurn(conversation).blocks[i].content =
                <<"Error:", " Calling tool ", "list_files", "\n",
                  "got an unexpected keyword argument">>

(***************************************************************************)
(* C3: a tool name that is not registered does not crash the loop: the     *)
(* outcome of execute_tool is a string beginning with "Error:", it is the  *)
(* tool result of the requesting block, and the gateway is called again.   *)
(***************************************************************************)
C3_UnknownState ==
    /\ fatal # "tool"
    /\ \A i \in DOMAIN dispatched :
          ~dispatched[i].known =>
              /\ dispatched[i].result # <<>>
              /\ Head(dispatched[i].result) = "Error:"
              /\ i \in DOMAIN tool_results
              /\ tool_results[i].tool_use_id = dispatched[i].id
              /\ tool_results[i].content = dispatched[i].result
              /\ (pc = "calling") =>
                    /\ LastTurn(conversation).role = "user"
                    /\ LastTurn(conversation).blocks[i].tool_use_id = dispatched[i].id
                    /\ LastTurn(conversation).blocks[i].content = dispatched[i].result

C3_UnknownStep ==
    /\ (pc = "blocks" /\ block_i <= Len(llm_response)
          /\ llm_response[block_i].type = "tool_use"
          /\ llm_response[block_i].name \notin DOMAIN tools_lookup
          /\ fatal' # "KeyboardInterrupt") =>
              /\ pc' = "blocks"
              /\ Len(dispatched') = Len(dispatched) + 1
    /\ (BlocksDone /\ pc' # "crashed"
          /\ \E i \in DOMAIN dispatched : ~dispatched[i].known) => pc' = "calling"

C3_UnknownToolContained == []C3_UnknownState /\ [][C3_UnknownStep]_vars

\* delete_everything was requested and its error string went to the model
C3_Witness ==
    /\ pc = "calling"
    /\ \E i \in DOMAIN dispatched :
          /\ dispatched[i].name = "delete_everything"
          /\ Head(LastTurn(conversation).blocks[i].content) = "Error:"
          /\ LastTurn(conversation).blocks[i].tool_use_id = dispatched[i].id

(***************************************************************************)
(* C4: a line that is empty once stripped leaves the conversation and the  *)
(* number of gateway calls as they were, and the loop waits for input      *)
(* again (the process is back at the prompt unless a SIGINT ended it on    *)
(* the way there).                                                         *)
(***************************************************************************)
C4_EmptyLineStep ==
    (pc = "awaiting" /\ last_input'.kind = "line" /\ strip(last_input'.text) = <<>>) =>
        /\ conversation' = conversation
        /\ gateway_calls' = gateway_calls
        /\ console' = console
        /\ (fatal' = "none") => pc' = "awaiting"
        /\ pc' \in {"awaiting", "crashed"}

C4_EmptyInputIsNoOp == [][C4_EmptyLineStep]_vars

\* a line of no-break space and em space was read after a completed turn
C4_Witness ==
    /\ pc = "awaiting"
    /\ last_input.kind = "line"
    /\ last_input.text = <<160, 8195>>
    /\ strip(last_input.text) = <<>>
    /\ conversation # <<>>
    /\ gateway_calls > 0

(***************************************************************************)
(* C5: the inner loop ends exactly when a response has no tool-use block:  *)
(* when the loop is back at the prompt after a user turn whose first k     *)
(* responses asked for tools and whose (k+1)-th did not, k+1 gateway calls *)
(* were made for the turn and the conversation grew by 1 + (k+1) + k.      *)
(***************************************************************************)
TurnResponses ==
    {i \in (turn_start + 1)..Len(conversation) : conversation[i].role = "assistant"}

ToolRounds ==
    Cardinality({i \in TurnResponses : ToolUses(conversation[i].blocks) # <<>>})

C5_TurnState ==
    (pc = "awaiting" /\ conversation # <<>>) =>
        /\ turn_calls = ToolRounds + 1
        /\ Len(conversation) = turn_start + 1 + (ToolRounds + 1) + ToolRounds
        /\ Cardinality(TurnResponses) = ToolRounds + 1
        /\ \A i \in TurnResponses :
              (ToolUses(conversation[i].blocks) = <<>>) <=> (i = Len(conversation))

C5_TurnStep ==
    /\ (pc = "blocks" /\ pc' = "awaiting") => ToolUses(llm_response) = <<>>
    /\ (pc = "blocks" /\ pc' = "calling") => ToolUses(llm_response) # <<>>
    /\ (pc = "blocks" /\ block_i <= Len(llm_response)) => pc' \in {"blocks", "crashed"}

C5_InnerLoopRounds == []C5_TurnState /\ [][C5_TurnStep]_vars

\* the one-tool round trip: two gateway calls, four turns
C5_Witness ==
    /\ pc = "awaiting"
    /\ turn_calls = 2
    /\ ToolRounds = 1
    /\ Len(conversation) = turn_start + 4

(***************************************************************************)
(* C6: every execute_tool call reports the request exactly once and the    *)
(* outcome (print_tool_result or print_tool_error) exactly once, whether   *)
(* the tool succeeded, faulted or is not registered.                       *)
(***************************************************************************)
C6_OneRequestOneOutcome ==
    \A i \in DOMAIN dispatched :
        /\ CountCalls(dispatched[i].ui, {"print_tool_request"}) = 1
        /\ CountCalls(dispatched[i].ui, {"print_tool_result", "print_tool_error"}) = 1

(***************************************************************************)
(* C7: whenever the loop waits for input, every tool-use block of every    *)
(* assistant turn is answered by exactly one tool-result block with its    *)
(* identifier, in the turn right after it, and every tool-result block     *)
(* answers one tool-use block of the turn before it, in the same order.    *)
(***************************************************************************)
ToolResultIds(conv) ==
    {<<t, b>> \in (DOMAIN conv) \X (1..MaxBlocks + 1) :
        b \in DOMAIN conv[t].blocks /\ conv[t].blocks[b].type = "tool_result"}

C7_AllToolUsesAnswered ==
    (pc = "awaiting") =>
        /\ \A t \in DOMAIN conversation :
              (conversation[t].role = "assistant"
                  /\ ToolUses(conversation[t].blocks) # <<>>) =>
                  /\ t < Len(conversation)
                  /\ conversation[t + 1].role = "user"
                  /\ Answers(conversation[t + 1].blocks, conversation[t].blocks)
                  /\ \A u \in DOMAIN ToolUses(conversation[t].blocks) :
                        Cardinality({r \in ToolResultIds(conversation) :
                            conversation[r[1]].blocks[r[2]].tool_use_id =
                                ToolUses(conversation[t].blocks)[u].id}) = 1
        /\ \A t \in DOMAIN conversation :
              (conversation[t].role = "user" /\ conversation[t].blocks # <<>>) =>
                  /\ t > 1
                  /\ conversation[t - 1].role = "assistant"
                  /\ Answers(conversation[t].blocks, conversation[t - 1].blocks)

\* back at the prompt after a response with two tool uses was answered
C7_Witness ==
    /\ pc = "awaiting"
    /\ \E t \in DOMAIN conversation :
          /\ conversation[t].role = "assistant"
          /\ Len(ToolUses(conversation[t].blocks)) = 2
          /\ Len(conversation[t + 1].blocks) = 2

(***************************************************************************)
(* C8: every step leaves the conversation as it was or appends to it: the  *)
(* conversation before the step is a prefix of the conversation after it.  *)
(***************************************************************************)
C8_AppendOnly == [][IsPrefix(conversation, conversation')]_vars

\* a second user line was appended behind a completed first turn
C8_Witness ==
    /\ Len(conversation) >= 3
    /\ turn_start >= 2
    /\ LastTurn(conversation).role = "user"
    /\ LastTurn(conversation).text # <<>>

(***************************************************************************)
(* C9: a failing gateway call is fatal and is not retried: agent_loop      *)
(* ends, and afterwards there is no gateway call, no tool dispatch, no     *)
(* append to the conversation and no return to the prompt.                 *)
(***************************************************************************)
C9_AfterFailureStep ==
    (fatal = "gateway") =>
        UNCHANGED <<pc, gateway_calls, conversation, dispatched, tool_results,
                    last_input, console>>

C9_GatewayFailureFatal ==
    /\ [](fatal = "gateway" => pc = "crashed")
    /\ [][C9_AfterFailureStep]_vars

\* the gateway failed in the second round of a user turn
C9_Witness ==
    /\ fatal = "gateway"
    /\ pc = "crashed"
    /\ gateway_calls = 2
    /\ Len(conversation) = 3

(***************************************************************************)
(* C10: with ANTHROPIC_API_KEY unset or empty the error is reported        *)
(* exactly once and main returns before the loop: no input is read, no     *)
(* gateway call is made, no conversation is created.  (A SIGINT that       *)
(* arrives while main runs ends it before the `return`; it too leaves no   *)
(* input read, no gateway call, no conversation and at most one report.)   *)
(***************************************************************************)
C10_MissingKeyExits ==
    MissingKey(getenv(environ)) =>
        /\ pc \in {"main", "exited", "crashed"}
        /\ (pc # "main" /\ fatal = "none") =>
              /\ pc = "exited"
              /\ CountCalls(console, {"print_error"}) = 1
        /\ (pc = "crashed") => fatal = "KeyboardInterrupt"
        /\ CountCalls(console, {"print_error"}) <= 1
        /\ last_input = NoInput
        /\ gateway_calls = 0
        /\ ~conversation_created
        /\ conversation = <<>>

\* main has returned on a variable that is set but empty
C10_Witness ==
    /\ pc = "exited"
    /\ environ.present
    /\ environ.value = ""
    /\ CountCalls(console, {"print_error"}) = 1

(***************************************************************************)
(* C11: end-of-input or an interrupt at the prompt ends the loop in        *)
(* Shutdown: the farewell is printed exactly once, the step leaves the     *)
(* conversation as it was, and afterwards no gateway call, tool dispatch   *)
(* or input read happens.  The event is input() raising EOFError or        *)
(* KeyboardInterrupt; a further SIGINT inside the handler is another event *)
(* (C12) and ends the process with the farewell printed at most once.      *)
(***************************************************************************)
InputEnded(inp) == inp.kind \in {"KeyboardInterrupt", "EOFError"}

C11_ShutdownStep ==
    /\ (pc = "awaiting" /\ InputEnded(last_input') /\ fatal' = "none") =>
          /\ pc' = "shutdown"
          /\ conversation' = conversation
          /\ gateway_calls' = gateway_calls
          /\ CountCalls(console', {"print_goodbye"}) = 1
    /\ (pc # "shutdown" /\ pc' = "shutdown") =>
          /\ pc = "awaiting"
          /\ InputEnded(last_input')
    /\ (pc = "shutdown") =>
          UNCHANGED <<pc, console, conversation, gateway_calls, dispatched,
                      tool_results, last_input, user_input>>

C11_ShutdownState ==
    /\ (pc = "shutdown") =>
          /\ InputEnded(last_input)
          /\ fatal = "none"
          /\ CountCalls(console, {"print_goodbye"}) = 1
    /\ (pc \notin {"shutdown", "crashed"}) =>
          CountCalls(console, {"print_goodbye"}) = 0
    /\ CountCalls(console, {"print_goodbye"}) <= 1
    /\ (CountCalls(console, {"print_goodbye"}) = 1) => InputEnded(last_input)
    /\ InputEnded(last_input) => pc \in {"shutdown", "crashed"}

C11_GracefulShutdown == []C11_ShutdownState /\ [][C11_ShutdownStep]_vars

\* end-of-input at the prompt after a completed turn
C11_Witness ==
    /\ pc = "shutdown"
    /\ last_input.kind = "EOFError"
    /\ Len(conversation) >= 2
    /\ CountCalls(console, {"print_goodbye"}) = 1

(***************************************************************************)
(* C12 as claimed: an interrupt that arrives while the loop is in          *)
(* CallingModel or DispatchingTools does not abort the model call or tool  *)
(* call and does not end the turn or the loop: the step in which it        *)
(* arrives does not end the process, the loop is at one of its states      *)
(* afterwards.                                                             *)
(***************************************************************************)
\* the step from CallingModel or DispatchingTools in which the interrupt arrives
C12_Arrives == pc \in {"calling", "blocks"} /\ fatal' = "KeyboardInterrupt"

C12_IgnoredStep ==
    C12_Arrives =>
        /\ pc' # "crashed"
        /\ pc' \in {"calling", "blocks", "awaiting"}

C12_InterruptIgnoredOutsidePrompt == [][C12_IgnoredStep]_vars

(***************************************************************************)
(* C12 amended: the interrupt is handled only inside input().  An          *)
(* interrupt that arrives during a model call or while the blocks of a     *)
(* response are processed is caught by nothing (execute_tool catches       *)
(* Exception only): the statement it arrives in is the last one to run,    *)
(* agent_loop ends at once, without farewell, and afterwards there is no   *)
(* gateway call, no dispatch, no append and no input read.  What the       *)
(* statements before the interrupt did stays done, nothing else is done.   *)
(***************************************************************************)
C12_InterruptState ==
    (fatal = "KeyboardInterrupt") => pc = "crashed"

C12_InterruptStep ==
    /\ C12_Arrives =>
          /\ pc' = "crashed"
          /\ CountCalls(console', {"print_goodbye"}) = 0
          /\ last_input' = last_input
          /\ IsPrefix(console, console')
          /\ IsPrefix(conversation, conversation')
          /\ Len(conversation') <= Len(conversation) + 1
          /\ gateway_calls' <= gateway_calls + 1
    /\ (C12_Arrives /\ pc = "calling") =>
          /\ UNCHANGED <<tool_results, dispatched>> \/ tool_results' = <<>>
          /\ (conversation' # conversation) =>
                /\ gateway_calls' = gateway_calls + 1
                /\ LastTurn(conversation') = Turn("assistant", <<>>, llm_response')
    /\ (C12_Arrives /\ pc = "blocks") =>
          /\ gateway_calls' = gateway_calls
          /\ Len(tool_results') <= Len(tool_results) + 1
          /\ Len(dispatched') = Len(tool_results')
          /\ block_i' \in {block_i, block_i + 1}
          /\ (conversation' # conversation) =>
                /\ BlocksDone
                /\ LastTurn(conversation') = Turn("user", <<>>, tool_results)
    /\ (fatal = "KeyboardInterrupt") =>
          UNCHANGED <<pc, console, conversation, gateway_calls, dispatched,
                      tool_results, block_i, last_input>>
    /\ (pc \in {"main", "calling", "blocks"}) => pc' # "shutdown"

C12_InterruptAbortsOutsidePrompt ==
    []C12_InterruptState /\ [][C12_InterruptStep]_vars

\* interrupted in the second tool of a response, after its outcome was
\* reported and before its result was appended: the tool results of the
\* response never reach the conversation
C12_Witness ==
    /\ fatal = "KeyboardInterrupt"
    /\ pc = "crashed"
    /\ Len(ToolUses(llm_response)) = 2
    /\ block_i = Len(llm_response)
    /\ Len(dispatched) = 1
    /\ Len(tool_results) = 1
    /\ console[Len(console)].fn = "print_tool_result"
    /\ console[Len(console) - 1].fn = "print_tool_request"
    /\ LastTurn(conversation).role = "assistant"

(***************************************************************************)
(* C13 as claimed: every user turn appended to the conversation is         *)
(* eventually followed by an assistant turn, in every execution.  Stated   *)
(* on the executions that have ended: the process is never over with a     *)
(* user turn as the last turn.                                             *)
(***************************************************************************)
ProcessOver == pc \in {"exited", "shutdown", "crashed"}

C13_UserTurnAlwaysAnswered ==
    (ProcessOver /\ conversation # <<>>) => LastTurn(conversation).role = "assistant"

(***************************************************************************)
(* C13 amended: a user turn (typed text or tool results) is followed       *)
(* directly by one assistant turn when the gateway call made for it        *)
(* returns and the loop goes on; when that call fails, or the process is   *)
(* interrupted before the response is appended, the loop is over with the  *)
(* user turn last and no assistant turn follows.                           *)
(***************************************************************************)
C13_AnsweredState ==
    /\ \A n \in 1..(Len(conversation) - 1) :
          conversation[n].role = "user" => conversation[n + 1].role = "assistant"
    /\ (conversation # <<>> /\ LastTurn(conversation).role = "user") =>
          \/ pc = "calling"
          \/ pc = "crashed" /\ fatal \in {"gateway", "KeyboardInterrupt"}

C13_AnsweredStep ==
    /\ (pc = "calling" /\ pc' = "blocks") =>
          /\ LastTurn(conversation).role = "user"
          /\ conversation' =
                Append(conversation, Turn("assistant", <<>>, llm_response'))
    /\ (pc = "calling" /\ pc' = "crashed") =>
          \/ UNCHANGED conversation
          \/ /\ fatal' = "KeyboardInterrupt"
             /\ conversation' =
                   Append(conversation, Turn("assistant", <<>>, llm_response'))
    /\ (pc = "calling" /\ fatal' = "gateway") => UNCHANGED conversation
    /\ (pc = "crashed") => UNCHANGED conversation

C13_UserTurnAnsweredWhenCallReturns ==
    []C13_AnsweredState /\ [][C13_AnsweredStep]_vars

\* the gateway call for a tool-result turn returned and was appended behind it
C13_Witness ==
    /\ Len(conversation) = 4
    /\ conversation[3].role = "user"
    /\ conversation[3].blocks # <<>>
    /\ conversation[4].role = "assistant"

(***************************************************************************)
(* C14 as claimed: all text blocks of a response are rendered before the   *)
(* first tool of that response is executed; no text block is rendered      *)
(* after a tool of the same response has run.                              *)
(***************************************************************************)
\* the calls to the presentation layer made since the latest response arrived
RECURSIVE RoundLog(_)
RoundLog(log) ==
    IF log = <<>> \/ log[Len(log)].fn = "pprint"
    THEN <<>>
    ELSE Append(RoundLog(SubSeq(log, 1, Len(log) - 1)), log[Len(log)])

C14_TextBeforeTools ==
    LET round == RoundLog(console)
    IN  \A i, j \in DOMAIN round :
            (i < j /\ round[i].fn = "print_tool_request") =>
                round[j].fn # "print_assistant_reply"

(***************************************************************************)
(* C14 amended: the blocks of a response are handled in one pass, in       *)
(* response order: a text block is rendered and a tool-use block is        *)
(* dispatched when the pass reaches it, so a text block is rendered after  *)
(* every tool that precedes it in the response and before every tool that  *)
(* follows it.                                                             *)
(***************************************************************************)
\* what the first n blocks of content write, given the dispatches made
RECURSIVE PassLog(_, _, _)
PassLog(content, n, done) ==
    IF n = 0
    THEN <<>>
    ELSE PassLog(content, n - 1, done) \o
            (IF content[n].type = "text"
             THEN <<Event("print_assistant_reply", "")>>
             ELSE done[Len(ToolUses(SubSeq(content, 1, n)))].ui)

C14_SinglePassState ==
    (pc = "blocks") =>
        /\ RoundLog(console) = PassLog(llm_response, block_i - 1, dispatched)
        /\ Len(dispatched) = Len(ToolUses(SubSeq(llm_response, 1, block_i - 1)))

C14_SinglePassStep ==
    (pc = "blocks" /\ pc' = "blocks" /\ block_i' # block_i) =>
        /\ block_i' = block_i + 1
        /\ (llm_response[block_i].type = "text") =>
              /\ console' = Append(console, Event("print_assistant_reply", ""))
              /\ dispatched' = dispatched
        /\ (llm_response[block_i].type = "tool_use") =>
              /\ Len(dispatched') = Len(dispatched) + 1
              /\ dispatched'[Len(dispatched')].id = llm_response[block_i].id

C14_BlocksInResponseOrder == []C14_SinglePassState /\ [][C14_SinglePassStep]_vars

\* a response of a tool use followed by text: the text is rendered after the tool ran
C14_Witness ==
    /\ pc = "blocks"
    /\ Len(llm_response) = 2
    /\ llm_response[1].type = "tool_use"
    /\ llm_response[2].type = "text"
    /\ block_i = 3
    /\ console[Len(console)].fn = "print_assistant_reply"
    /\ Len(dispatched) = 1

(***************************************************************************)
(* C15: the table built from the ordered list of tools gives every name of *)
(* the list exactly one callable; a name that occurs more than once        *)
(* resolves, without error, to the last tool listed under it; every name   *)
(* of the list is resolvable and no other name is.                         *)
(***************************************************************************)
Listed(name) == \E i \in DOMAIN reg_tools : reg_tools[i] = name

C15_LastRegistrationWins ==
    (pc = "registry_built") =>
        /\ DOMAIN reg_lookup = {reg_tools[i] : i \in DOMAIN reg_tools}
        /\ \A i \in DOMAIN reg_tools :
              LET fn == Get(reg_lookup, reg_tools[i])
              IN  /\ fn # None
                  /\ fn \in DOMAIN reg_tools
                  /\ reg_tools[fn] = reg_tools[i]
                  /\ \A j \in DOMAIN reg_tools :
                        reg_tools[j] = reg_tools[i] => j <= fn
        /\ (reg_name # "") =>
              /\ Listed(reg_name) <=> reg_fn # None
              /\ Listed(reg_name) =>
                    /\ reg_tools[reg_fn] = reg_name
                    /\ \A j \in DOMAIN reg_tools : reg_tools[j] = reg_name => j <= reg_fn

\* read_file listed first and last: the lookup gives the last one
C15_Witness ==
    /\ pc = "registry_built"
    /\ reg_tools = <<"read_file", "list_files", "read_file">>
    /\ reg_name = "read_file"
    /\ reg_fn = 3

(***************************************************************************)
(* C16: the roles of the turns alternate user, assistant, user, ...,       *)
(* starting with user; whenever the gateway is called the conversation is  *)
(* not empty and its last turn is a user turn (typed text or tool          *)
(* results); whenever the loop waits for input the conversation is empty   *)
(* or ends with an assistant turn that has no tool-use block.              *)
(***************************************************************************)
C16_RolesState ==
    /\ \A n \in DOMAIN conversation :
          conversation[n].role = IF n % 2 = 1 THEN "user" ELSE "assistant"
    /\ \A n \in DOMAIN conversation :
          conversation[n].role = "user" =>
              (conversation[n].text # <<>>) # (conversation[n].blocks # <<>>)
    /\ (pc = "calling") =>
          /\ conversation # <<>>
          /\ LastTurn(conversation).role = "user"
    /\ (pc = "awaiting") =>
          \/ conversation = <<>>
          \/ /\ LastTurn(conversation).role = "assistant"
             /\ ToolUses(LastTurn(conversation).blocks) = <<>>

C16_RolesStep ==
    (gateway_calls' # gateway_calls) =>
        /\ pc = "calling"
        /\ conversation # <<>>
        /\ LastTurn(conversation).role = "user"

C16_RolesAlternate == []C16_RolesState /\ [][C16_RolesStep]_vars

\* text, tool request, tool results, final answer: back at the prompt
C16_Witness ==
    /\ pc = "awaiting"
    /\ Len(conversation) = 4
    /\ conversation[1].text # <<>>
    /\ ToolUses(conversation[2].blocks) # <<>>
    /\ conversation[3].blocks # <<>>
    /\ ToolUses(conversation[4].blocks) = <<>>

(***************************************************************************)
(* C17: for a name that is not registered execute_tool does not stop at    *)
(* the lookup: it shows the not-found error, reports the request and calls *)
(* the missing implementation; the fault of that call is caught by the     *)
(* handler of tool faults, and the string returned and sent to the model   *)
(* is that handler's "Error: Calling tool <name>" message.  The            *)
(* "Requested tool do not exists" message is shown to the user only.       *)
(***************************************************************************)
\* the strings of the tool results in the conversation
Delivered ==
    {conversation[r[1]].blocks[r[2]].content : r \in ToolResultIds(conversation)}

C17_UnknownToolFallsThrough ==
    /\ \A i \in DOMAIN dispatched :
          ~dispatched[i].known =>
              LET d == dispatched[i]
              IN  /\ d.ui = <<Event("print_tool_error", d.name),
                              Event("print_tool_request", d.name),
                              Event("print_tool_error", d.name)>>
                  /\ d.result = CallFaultMessage(d.name, NoneCall.value)
                  /\ SubSeq(d.result, 1, 3) = <<"Error:", " Calling tool ", d.name>>
                  /\ d.result # MissingToolMessage(d.name)
                  /\ d.errors = <<MissingToolMessage(d.name), d.result>>
                  /\ tool_results[i].content = d.result
    /\ \A name \in RequestedNames : MissingToolMessage(name) \notin Delivered

\* delete_everything was dispatched and its result delivered to the model
C17_Witness ==
    /\ pc = "calling"
    /\ \E i \in DOMAIN dispatched :
          /\ dispatched[i].name = "delete_everything"
          /\ dispatched[i].errors[1] = MissingToolMessage("delete_everything")
          /\ CallFaultMessage("delete_everything", NoneCall.value) \in Delivered

====
